---------------------------- MODULE Spec2Model ----------------------------
(***************************************************************************)
(* Linear uncertainty propagation of the `uncertainties` package.          *)
(*                                                                         *)
(* Two implementations of the value type live in the repository and both   *)
(* are modelled; the variable impl says which one a behaviour runs:        *)
(*   "new"   src/uncertainties/new/ufloat.py: atoms carry their standard    *)
(*           deviation, combinations are plain tuples, the lifting engine   *)
(*           is the ToUFunc of the same file;                               *)
(*   "core"  src/uncertainties/ufloat.py with src/uncertainties/ucombo.py:  *)
(*           atoms are bare identities of unit variance, combinations are   *)
(*           UCombo objects, the lifting engine is the ToUFunc of            *)
(*           new/func_conversion.py, and new/covariance.py reads the         *)
(*           expanded_dict of these combinations.                            *)
(*                                                                         *)
(* Floats are modelled by exact numbers: a rational v/d in lowest terms,    *)
(* NaN, or the exact square root of a non-square rational (a surd), so     *)
(* that no statement below rests on rounding.  Of the limits of a double   *)
(* one is kept: a nonzero result below 1/Underflow in magnitude is flushed *)
(* to zero.                                                                *)
(***************************************************************************)
EXTENDS Integers, Sequences, FiniteSets, TLC

\* Largest number of live UFloat objects in a behaviour.
MaxUFloats == 3

(***************************************************************************)
(* Floats.                                                                 *)
(***************************************************************************)
F(n) == [nan |-> FALSE, surd |-> FALSE, v |-> n, d |-> 1]
NaN == [nan |-> TRUE, surd |-> FALSE, v |-> 0, d |-> 1]

Abs(n) == IF n < 0 THEN 0 - n ELSE n

RECURSIVE GCD(_, _)
GCD(a, b) == IF b = 0 THEN a ELSE GCD(b, a % b)

\* The reciprocal of the smallest positive float.
Underflow == 1000000

\* The rational n/d (d # 0) in lowest terms with a positive denominator; a
\* magnitude below 1/Underflow underflows to 0.0.
Q(n, d) ==
    LET g == GCD(Abs(n), Abs(d))
        sgn == IF d < 0 THEN -1 ELSE 1
    IN IF Abs(n) < Abs(d) \div Underflow THEN F(0)
       ELSE [nan |-> FALSE, surd |-> FALSE,
             v |-> sgn * (n \div g), d |-> Abs(d) \div g]

\* A float so small that its square underflows.
Tiny == Q(1, 10000)

\* The exact square root of the rational n/d.
Surd(n, d) == [nan |-> FALSE, surd |-> TRUE, v |-> n, d |-> d]

isnan(x) == x.nan

\* x == 0 on floats: NaN compares unequal to everything.
FIsZero(x) == ~x.nan /\ ~x.surd /\ x.v = 0

\* x < 0 on floats: every comparison with NaN is False.
FIsNeg(x) == ~x.nan /\ ~x.surd /\ x.v < 0

FAdd(x, y) == IF x.nan \/ y.nan THEN NaN ELSE Q(x.v * y.d + y.v * x.d, x.d * y.d)
FSub(x, y) == IF x.nan \/ y.nan THEN NaN ELSE Q(x.v * y.d - y.v * x.d, x.d * y.d)
FMul(x, y) == IF x.nan \/ y.nan THEN NaN ELSE Q(x.v * y.v, x.d * y.d)
FNeg(x) == IF x.nan THEN NaN ELSE Q(0 - x.v, x.d)

\* x / y for y != 0 (a zero divisor raises before any float is produced).
FDiv(x, y) == IF x.nan \/ y.nan THEN NaN ELSE Q(x.v * y.d, x.d * y.v)

\* x**2; the square of the surd sqrt(q) is q.
FSq(x) ==
    IF x.nan THEN NaN
    ELSE IF x.surd THEN Q(x.v, x.d) ELSE Q(x.v * x.v, x.d * x.d)

RECURSIVE IntRoot(_, _)
IntRoot(n, r) == IF (r + 1) * (r + 1) > n THEN r ELSE IntRoot(n, r + 1)

\* math.sqrt on the exact numbers (its argument is a sum of squares here).
FSqrt(x) ==
    IF x.nan THEN NaN
    ELSE LET rv == IntRoot(x.v, 0)
             rd == IntRoot(x.d, 0)
         IN IF rv * rv = x.v /\ rd * rd = x.d THEN Q(rv, rd) ELSE Surd(x.v, x.d)

\* c / r for a rational c and a nonzero root r >= 0: c over the surd sqrt(q)
\* is the signed surd sgn(c) sqrt(c^2/q), kept with the sign on v.
DivByRoot(c, r) ==
    IF c.nan \/ r.nan THEN NaN
    ELSE IF ~r.surd THEN FDiv(c, r)
    ELSE IF FIsZero(c) THEN F(0)
    ELSE LET q == Q(c.v * c.v * r.d, c.d * c.d * r.v)
         IN [nan |-> FALSE, surd |-> TRUE,
             v |-> (IF c.v < 0 THEN -1 ELSE 1) * q.v, d |-> q.d]

(***************************************************************************)
(* Atoms and combinations.                                                 *)
(***************************************************************************)
\* new/ufloat.py: UncertaintyAtom(std_dev) with a fresh uuid.
UncertaintyAtom(std_dev, uuid) ==
    [kind |-> "atom", uuid |-> uuid, std_dev |-> std_dev]

\* An atom whose uuid is not fresh.
UAtomSameUuid(uuid) == [kind |-> "atom", uuid |-> 0]

\* ucombo.py: UAtom() with a fresh uuid and no other field.
UAtom(uuid) == [kind |-> "atom", uuid |-> uuid]

\* A combination: a tuple of (term, weight) pairs, term an atom or a
\* combination.
UCombo(terms) == [kind |-> "combo", combo |-> terms]

IsAtom(term) == term.kind = "atom"

(***************************************************************************)
(* Expansion.  expanded_dict is an insertion-ordered dict, kept as the     *)
(* sequence of its (atom, weight) items.  The lru_cache of the expansion   *)
(* is a function from combinations to their cached results; a call reads   *)
(* it before computing.                                                    *)
(***************************************************************************)
HasKey(d, atom) == \E k \in 1..Len(d) : d[k][1] = atom

KeyIndex(d, atom) == CHOOSE k \in 1..Len(d) : d[k][1] = atom

\* A dict whose entry is overwritten rather than accumulated.
DictAddOverwrites(d, atom, w) ==
    IF HasKey(d, atom)
    THEN [d EXCEPT ![KeyIndex(d, atom)] = <<atom, w>>]
    ELSE Append(d, <<atom, w>>)

\* expanded_dict[atom] += w on a defaultdict(float).
DictAdd(d, atom, w) ==
    IF HasKey(d, atom)
    THEN [d EXCEPT ![KeyIndex(d, atom)] = <<atom, FAdd(d[KeyIndex(d, atom)][2], w)>>]
    ELSE Append(d, <<atom, FAdd(F(0), w)>>)

\* for atom, atom_weight in expanded_term: expanded_dict[atom] += atom_weight * term_weight
RECURSIVE DictAddScaled(_, _, _, _)
DictAddScaled(d, items, term_weight, k) ==
    IF k > Len(items) THEN d
    ELSE DictAddScaled(DictAdd(d, items[k][1], FMul(items[k][2], term_weight)),
                       items, term_weight, k + 1)

\* new/ufloat.py: an atom of zero std_dev is dropped, and so is a zero weight
\* unless the atom's std_dev is NaN.
PruneNew(d) ==
    SelectSeq(d, LAMBDA p : ~(FIsZero(p[1].std_dev)
                              \/ (FIsZero(p[2]) /\ ~isnan(p[1].std_dev))))

\* ucombo.py: if weight != 0.
PruneCore(d) == SelectSeq(d, LAMBDA p : ~FIsZero(p[2]))

Prune(im, d) == IF im = "new" THEN PruneNew(d) ELSE PruneCore(d)

\* The expansion of a combination, reading the lru_cache `cache`.
RECURSIVE get_expanded_combo(_, _, _)
RECURSIVE ExpandTerms(_, _, _, _, _)
ExpandTerms(im, cache, terms, k, d) ==
    IF k > Len(terms) THEN d
    ELSE LET term == terms[k][1]
             term_weight == terms[k][2]
         IN ExpandTerms(im, cache, terms, k + 1,
                IF IsAtom(term)
                THEN DictAdd(d, term, term_weight)
                ELSE DictAddScaled(d, get_expanded_combo(im, cache, term),
                                   term_weight, 1))

get_expanded_combo(im, cache, combo) ==
    IF combo \in DOMAIN cache THEN cache[combo]
    ELSE Prune(im, ExpandTerms(im, cache, combo.combo, 1, <<>>))

\* The combinations a call get_expanded_combo(combo) computes and caches:
\* combo and the nested combinations it recurses into, down to cached ones.
RECURSIVE Misses(_, _)
Misses(cache, combo) ==
    IF combo \in DOMAIN cache THEN {}
    ELSE {combo} \cup UNION {Misses(cache, combo.combo[k][1]) :
                                k \in {j \in 1..Len(combo.combo) :
                                         ~IsAtom(combo.combo[j][1])}}

\* The lru_cache after the call get_expanded_combo(combo).
CacheAfter(im, cache, combo) ==
    [c \in DOMAIN cache \cup Misses(cache, combo) |->
        get_expanded_combo(im, cache, c)]

EmptyCache == [c \in {} |-> <<>>]

(***************************************************************************)
(* Standard deviation.                                                     *)
(***************************************************************************)
Returns(kind, value) == [kind |-> kind, value |-> value]
Raises(exc) == [kind |-> "raise", value |-> exc]

RECURSIVE SumSeq(_, _)
SumSeq(xs, k) == IF k > Len(xs) THEN F(0) ELSE FAdd(xs[k], SumSeq(xs, k + 1))

\* new/ufloat.py get_std_dev: sqrt(sum((weight*atom.std_dev)**2)).
StdDevNew(items) ==
    FSqrt(SumSeq([k \in 1..Len(items) |->
                    FSq(FMul(items[k][2], items[k][1].std_dev))], 1))

\* ucombo.py get_std_dev(ucombo_dict) is wrapped in lru_cache and is handed
\* the expanded dict itself: building the cache key hashes the dict.
DictIsHashable == FALSE

StdDevCore(items) ==
    IF ~DictIsHashable THEN Raises("TypeError")
    ELSE Returns("float", FSqrt(SumSeq([k \in 1..Len(items) |-> FSq(items[k][2])], 1)))

\* UFloat.std_dev given the expansion of the value's combination.
get_std_dev(im, items) ==
    IF im = "new" THEN Returns("float", StdDevNew(items)) ELSE StdDevCore(items)

(***************************************************************************)
(* Values.                                                                 *)
(***************************************************************************)
\* A UFloat object: nominal value and (unexpanded) combination.
UFloatObj(val, uncertainty) ==
    [kind |-> "UFloat", val |-> val, uncertainty |-> uncertainty]

\* A plain real argument.
Real(x) == [kind |-> "Real", val |-> x]

IsUFloat(arg) == arg.kind = "UFloat"

\* new/ufloat.py UFloat.__init__(value, uncertainty: Real): a negative
\* uncertainty is refused, otherwise one fresh atom of that std_dev, weight 1.
UFloatInitNew(value, uncertainty, uuid) ==
    IF FIsNeg(uncertainty) THEN Raises("ValueError")
    ELSE UFloatObj(value, UCombo(<<<<UncertaintyAtom(uncertainty, uuid), F(1)>>>>))

\* ufloat.py UFloat.__init__(value, uncertainty: Real): one fresh atom weighted
\* by the uncertainty; nothing is checked.
UFloatInitCore(value, uncertainty, uuid) ==
    UFloatObj(value, UCombo(<<<<UAtom(uuid), uncertainty>>>>))

UFloatInit(im, value, uncertainty, uuid) ==
    IF im = "new" THEN UFloatInitNew(value, uncertainty, uuid)
    ELSE UFloatInitCore(value, uncertainty, uuid)

(***************************************************************************)
(* The lifted float operators (new/umath.py float_funcs_dict).  A call     *)
(* f(self, other) gets its arguments as x, y; the reflected operators      *)
(* compute with the operands swapped.  Of the lifted math functions        *)
(* (math_funcs_dict) sqrt and hypot are modelled.                          *)
(***************************************************************************)
UnaryFuncs == {"__pos__", "__neg__"}
BinaryFuncs == {"__add__", "__radd__", "__sub__", "__rsub__", "__mul__", "__rmul__",
                "__truediv__", "__rtruediv__"}
MathFuncs == {"sqrt", "hypot"}
\* The operators float_funcs_dict registers with unset entries (None, None).
NumericFuncs == {"__pow__", "__rpow__", "__mod__", "__rmod__"}

\* math.hypot(x, y)
hypot(x, y) == FSqrt(FAdd(FSq(x), FSq(y)))

\* x ** y where the result is a rational: y among 0, 1, 2, or x = 1.
FPow(x, y) ==
    IF y = F(0) \/ x = F(1) THEN F(1)
    ELSE IF x.nan \/ y.nan THEN NaN
    ELSE IF y = F(1) THEN x
    ELSE FSq(x)

\* math.floor(x / y) for rationals, y != 0.
FloorDiv(x, y) ==
    LET n == x.v * y.d
        d == x.d * y.v
    IN IF d > 0 THEN n \div d ELSE (0 - n) \div (0 - d)

\* x % y for y != 0: x - y * floor(x / y), with the sign of y.
FMod(x, y) ==
    IF x.nan \/ y.nan THEN NaN
    ELSE FSub(x, FMul(y, F(FloorDiv(x, y))))

FAbs(x) == IF FIsNeg(x) THEN FNeg(x) ELSE x

\* getattr(float, func_name)(*float_args)
FloatFunc(f, a) ==
    CASE f = "__pos__" -> a[1]
      [] f = "__neg__" -> FNeg(a[1])
      [] f = "__add__" -> FAdd(a[1], a[2])
      [] f = "__radd__" -> FAdd(a[2], a[1])
      [] f = "__sub__" -> FSub(a[1], a[2])
      [] f = "__rsub__" -> FSub(a[2], a[1])
      [] f = "__mul__" -> FMul(a[1], a[2])
      [] f = "__rmul__" -> FMul(a[2], a[1])
      [] f = "__truediv__" -> FDiv(a[1], a[2])
      [] f = "__rtruediv__" -> FDiv(a[2], a[1])
      [] f = "sqrt" -> FSqrt(a[1])
      [] f = "hypot" -> hypot(a[1], a[2])
      [] f = "__pow__" -> FPow(a[1], a[2])
      [] f = "__rpow__" -> FPow(a[2], a[1])
      [] f = "__mod__" -> FMod(a[1], a[2])
      [] f = "__rmod__" -> FMod(a[2], a[1])

\* float division by zero raises ZeroDivisionError, math.sqrt of a negative
\* number raises ValueError.
FloatFuncRaises(f, a) ==
    \/ f = "__truediv__" /\ FIsZero(a[2])
    \/ f = "__rtruediv__" /\ FIsZero(a[1])
    \/ f = "sqrt" /\ FIsNeg(a[1])
    \/ f = "__mod__" /\ FIsZero(a[2])
    \/ f = "__rmod__" /\ FIsZero(a[1])

\* The exception the plain function raises when it raises.
FloatFuncError(f, a) == IF f = "sqrt" THEN "ValueError" ELSE "ZeroDivisionError"

\* The step of the central difference is |x| times this; the model takes a
\* power of ten for sqrt(sys.float_info.epsilon).
SQRT_EPS == Q(1, 100)

\* A central difference that answers 0.0 where its step is 0.
NumericalDerivativeGuarded(f, target_param, a) ==
    LET x == a[target_param + 1]
        dx == FMul(FAbs(x), SQRT_EPS)
        lower_y == FloatFunc(f, [a EXCEPT ![target_param + 1] = FSub(x, dx)])
        upper_y == FloatFunc(f, [a EXCEPT ![target_param + 1] = FAdd(x, dx)])
    IN IF FIsZero(FMul(F(2), dx)) THEN Returns("float", F(0))
       ELSE Returns("float", FDiv(FSub(upper_y, lower_y), FMul(F(2), dx)))

\* numerical_partial_derivative(f, target_param, *args): the central
\* difference (f(x + dx) - f(x - dx)) / (2 * dx) with dx = abs(x) * SQRT_EPS;
\* the float division raises when 2 * dx is 0.0.
numerical_partial_derivative(f, target_param, a) ==
    LET x == a[target_param + 1]
        dx == FMul(FAbs(x), SQRT_EPS)
        lower_y == FloatFunc(f, [a EXCEPT ![target_param + 1] = FSub(x, dx)])
        upper_y == FloatFunc(f, [a EXCEPT ![target_param + 1] = FAdd(x, dx)])
    IN IF FIsZero(FMul(F(2), dx)) THEN Raises("ZeroDivisionError")
       ELSE Returns("float", FDiv(FSub(upper_y, lower_y), FMul(F(2), dx)))

\* float_funcs_dict[f][param] evaluated with x = a[1], y = a[2]; param counts
\* from 0 as in the source.  An unset entry is differentiated numerically.
DerivFunc(f, param, a) ==
    CASE f = "__pos__" -> F(1)
      [] f = "__neg__" -> F(-1)
      [] f = "__add__" -> F(1)
      [] f = "__radd__" -> F(1)
      [] f = "__sub__" -> IF param = 0 THEN F(1) ELSE F(-1)
      [] f = "__rsub__" -> IF param = 0 THEN F(-1) ELSE F(1)
      [] f = "__mul__" -> IF param = 0 THEN a[2] ELSE a[1]
      [] f = "__rmul__" -> IF param = 0 THEN a[2] ELSE a[1]
      [] f = "__truediv__" ->
            IF param = 0 THEN FDiv(F(1), a[2])
            ELSE FDiv(FNeg(a[1]), FSq(a[2]))
      [] f = "__rtruediv__" ->
            IF param = 0 THEN FDiv(FNeg(a[1]), FSq(a[2]))
            ELSE FDiv(F(1), a[2])
      [] f = "sqrt" -> DivByRoot(Q(1, 2), FSqrt(a[1]))
      [] f = "hypot" -> DivByRoot(a[param + 1], hypot(a[1], a[2]))
      [] f \in NumericFuncs -> numerical_partial_derivative(f, param, a).value

\* The derivative strings of the two divisions all divide by y, that of sqrt
\* divides by math.sqrt(x) and those of hypot by math.hypot(x, y).
DerivFuncRaises(f, param, a) ==
    \/ f \in {"__truediv__", "__rtruediv__"} /\ FIsZero(a[2])
    \/ f = "sqrt" /\ (FIsZero(a[1]) \/ FIsNeg(a[1]))
    \/ f = "hypot" /\ FIsZero(hypot(a[1], a[2]))
    \/ f \in NumericFuncs /\ numerical_partial_derivative(f, param, a).kind = "raise"

\* The exception a derivative string raises when it raises: the division by
\* zero, or math.sqrt refusing a negative number.
DerivFuncError(f, param, a) ==
    IF f = "sqrt" /\ FIsNeg(a[1]) THEN "ValueError" ELSE "ZeroDivisionError"

\* float_args: every UFloat argument replaced by its nominal value.
FloatArgs(args) == [k \in 1..Len(args) |-> args[k].val]

\* The (arg.uncertainty, derivative) pairs of the UFloat arguments, in
\* argument order.
RECURSIVE NewComboList(_, _, _)
NewComboList(f, args, k) ==
    IF k > Len(args) THEN <<>>
    ELSE (IF IsUFloat(args[k])
          THEN <<<<args[k].uncertainty, DerivFunc(f, k - 1, FloatArgs(args))>>>>
          ELSE <<>>) \o NewComboList(f, args, k + 1)

\* The first UFloat argument whose derivative raises.
FirstRaising(f, args) ==
    CHOOSE k \in 1..Len(args) :
        /\ IsUFloat(args[k]) /\ DerivFuncRaises(f, k - 1, FloatArgs(args))
        /\ \A j \in 1..(k - 1) :
              ~(IsUFloat(args[j]) /\ DerivFuncRaises(f, j - 1, FloatArgs(args)))

\* A wrapper that wraps the plain result of a call without UFloat argument.
WrappedAlwaysValue(f, args) ==
    LET float_args == FloatArgs(args)
    IN IF FloatFuncRaises(f, float_args)
       THEN Raises(FloatFuncError(f, float_args))
       ELSE IF \E k \in 1..Len(args) :
                  IsUFloat(args[k]) /\ DerivFuncRaises(f, k - 1, float_args)
       THEN Raises(DerivFuncError(f, FirstRaising(f, args) - 1, float_args))
       ELSE UFloatObj(FloatFunc(f, float_args), UCombo(NewComboList(f, args, 1)))

\* A wrapper that catches what a derivative raises and weights by NaN.
RECURSIVE NanComboList(_, _, _)
NanComboList(f, args, k) ==
    IF k > Len(args) THEN <<>>
    ELSE (IF IsUFloat(args[k])
          THEN <<<<args[k].uncertainty,
                   IF DerivFuncRaises(f, k - 1, FloatArgs(args)) THEN NaN
                   ELSE DerivFunc(f, k - 1, FloatArgs(args))>>>>
          ELSE <<>>) \o NanComboList(f, args, k + 1)

WrappedNanDerivative(f, args) ==
    LET float_args == FloatArgs(args)
    IN IF FloatFuncRaises(f, float_args)
       THEN Raises(FloatFuncError(f, float_args))
       ELSE IF \A k \in 1..Len(args) : ~IsUFloat(args[k])
       THEN Returns("float", FloatFunc(f, float_args))
       ELSE UFloatObj(FloatFunc(f, float_args), UCombo(NanComboList(f, args, 1)))

\* ToUFunc.__call__.wrapped of new/ufloat.py and of new/func_conversion.py on
\* positional arguments that are UFloat or plain reals: the plain function is
\* called first, then one derivative for each UFloat argument.
Wrapped(f, args) ==
    LET float_args == FloatArgs(args)
    IN IF FloatFuncRaises(f, float_args)
       THEN Raises(FloatFuncError(f, float_args))
       ELSE IF \A k \in 1..Len(args) : ~IsUFloat(args[k])
       THEN Returns("float", FloatFunc(f, float_args))
       ELSE IF \E k \in 1..Len(args) :
                  IsUFloat(args[k]) /\ DerivFuncRaises(f, k - 1, float_args)
       THEN Raises(DerivFuncError(f, FirstRaising(f, args) - 1, float_args))
       ELSE UFloatObj(FloatFunc(f, float_args), UCombo(NewComboList(f, args, 1)))

\* Entries of a tuple of derivative functions: a string, or None.
Str(func_str) == [kind |-> "str", value |-> func_str]
None == [kind |-> "None", value |-> "None"]

\* float_funcs_dict[func_name], for the operators modelled.
float_funcs_dict(func_name) ==
    CASE func_name = "__pos__" -> <<Str("1")>>
      [] func_name = "__neg__" -> <<Str("-1")>>
      [] func_name = "__add__" -> <<Str("1"), Str("1")>>
      [] func_name = "__radd__" -> <<Str("1"), Str("1")>>
      [] func_name = "__sub__" -> <<Str("1"), Str("-1")>>
      [] func_name = "__rsub__" -> <<Str("-1"), Str("1")>>
      [] func_name = "__mul__" -> <<Str("y"), Str("x")>>
      [] func_name = "__rmul__" -> <<Str("y"), Str("x")>>
      [] func_name = "__truediv__" -> <<Str("1/y"), Str("-x/y**2")>>
      [] func_name = "__rtruediv__" -> <<Str("-x/y**2"), Str("1/y")>>
      [] func_name \in NumericFuncs -> <<None, None>>

\* deriv_func_dict_positional_helper(deriv_funcs): new/ufloat.py passes None
\* through, new/func_conversion.py accepts a callable or a string and raises
\* ValueError for anything else.
deriv_func_dict_positional_helper(im, deriv_funcs) ==
    IF im = "core" /\ \E k \in 1..Len(deriv_funcs) : deriv_funcs[k] = None
    THEN Raises("ValueError")
    ELSE Returns("dict", deriv_funcs)

\* An argument that is neither a UFloat nor a Real and supports no arithmetic.
Opaque == [kind |-> "Opaque"]

NotImplemented == [kind |-> "NotImplemented", value |-> "NotImplemented"]

\* Whether the derivative string float_funcs_dict[f][param] computes with y:
\* 'y' alone hands y back, '1/y' and '-x/y**2' do arithmetic on it.
DerivFuncReturnsY(f, param) == f \in {"__mul__", "__rmul__"} /\ param = 0
DerivFuncComputesWithY(f, param) == f \in {"__truediv__", "__rtruediv__"}

\* ToUFunc.__call__.wrapped on a UFloat and an Opaque argument.  The float
\* operators f(x, y) return NotImplemented for an opaque y and math.hypot
\* raises TypeError for an opaque argument.  Then new/ufloat.py evaluates the
\* derivative of a UFloat parameter and returns NotImplemented at the first
\* parameter that is neither UFloat nor Real; new/func_conversion.py evaluates
\* the derivatives of the UFloat arguments, returns NotImplemented when
\* float(derivative) raises TypeError, and hands the nominal result to
\* UFloat(), whose float(value) refuses NotImplemented.
WrappedOpaque(im, f, args) ==
    IF f = "hypot" THEN Raises("TypeError")
    ELSE IF DerivFuncComputesWithY(f, 0) THEN Raises("TypeError")
    ELSE IF im = "new" THEN NotImplemented
    ELSE IF DerivFuncReturnsY(f, 0) THEN NotImplemented
    ELSE Raises("TypeError")

(***************************************************************************)
(* Covariance (new/covariance.py), on values whose combinations offer       *)
(* expanded_dict.                                                          *)
(***************************************************************************)
Keys(d) == {d[k][1] : k \in 1..Len(d)}

DictGet(d, atom) == d[KeyIndex(d, atom)][2]

RECURSIVE SumOver(_, _, _)
SumOver(atoms, di, dj) ==
    IF atoms = {} THEN F(0)
    ELSE LET atom == CHOOSE a \in atoms : TRUE
         IN FAdd(FMul(DictGet(di, atom), DictGet(dj, atom)),
                 SumOver(atoms \ {atom}, di, dj))

\* The value the loop body leaves in cov[i][j] for i <= j: untouched (0.0)
\* when the two atom sets are disjoint, else the sum over the intersection.
CovUpper(dicts, i, j) ==
    LET atom_intersection == Keys(dicts[i]) \cap Keys(dicts[j])
    IN IF atom_intersection = {} THEN F(0)
       ELSE SumOver(atom_intersection, dicts[i], dicts[j])

\* Only cov[i][j] is written, cov[j][i] keeps its initial 0.0.
CovCellNotMirrored(dicts, i, j) ==
    IF i <= j THEN CovUpper(dicts, i, j) ELSE F(0)

\* cov[i][j] = cov_ij ; cov[j][i] = cov_ij, for j in range(i, n).
CovCell(dicts, i, j) ==
    IF i <= j THEN CovUpper(dicts, i, j) ELSE CovUpper(dicts, j, i)

covariance_matrix(dicts) ==
    [i \in 1..Len(dicts) |-> [j \in 1..Len(dicts) |-> CovCell(dicts, i, j)]]

\* The lru_cache after expanding the combinations of ufs[k..] in order.
RECURSIVE CacheAfterAll(_, _, _, _)
CacheAfterAll(im, cache, ufs, k) ==
    IF k > Len(ufs) THEN cache
    ELSE CacheAfterAll(im, CacheAfter(im, cache, ufs[k].uncertainty), ufs, k + 1)

(***************************************************************************)
(* correlated_values (new/covariance.py), on integer matrices.             *)
(***************************************************************************)
RECURSIVE SumTo(_, _, _)
SumTo(g(_), lo, hi) == IF lo > hi THEN 0 ELSE g(lo) + SumTo(g, lo + 1, hi)

\* np.linalg.cholesky: the entries of the lower-triangular factor, row by
\* row; Pivot is the number whose root is the diagonal entry.
RECURSIVE CholEntry(_, _, _)
RECURSIVE CholPivot(_, _)
CholPivot(C, j) ==
    LET sq(k) == CholEntry(C, j, k) * CholEntry(C, j, k)
    IN C[j][j] - SumTo(sq, 1, j - 1)

CholEntry(C, i, j) ==
    IF j > i THEN 0
    ELSE IF j = i THEN IntRoot(CholPivot(C, j), 0)
    ELSE LET pr(k) == CholEntry(C, i, k) * CholEntry(C, j, k)
         IN (C[i][j] - SumTo(pr, 1, j - 1)) \div CholEntry(C, j, j)

\* cholesky raises LinAlgError unless every pivot is positive.
CholeskyFails(C) == \E j \in 1..Len(C) : CholPivot(C, j) <= 0

\* The upper-triangular factor in place of the lower one.
choleskyTransposed(C) ==
    [i \in 1..Len(C) |-> [j \in 1..Len(C) |-> CholEntry(C, j, i)]]

cholesky(C) == [i \in 1..Len(C) |-> [j \in 1..Len(C) |-> CholEntry(C, i, j)]]

\* eigh, clip and sqrt on a degenerate matrix v v^T (or 0): every eigenvalue
\* but the last is 0, the last is |v|^2 with eigenvector sign * v / |v|, so
\* eig_vecs @ std_devs has zero columns but the last, which is sign * v.
EigPivot(C) == CHOOSE p \in 1..Len(C) : C[p][p] > 0

EigVec(C, i) ==
    IF \A p \in 1..Len(C) : C[p][p] = 0 THEN 0
    ELSE C[i][EigPivot(C)] \div IntRoot(C[EigPivot(C)][EigPivot(C)], 0)

eig_vecs_std_devs(C, sign) ==
    [i \in 1..Len(C) |-> [j \in 1..Len(C) |->
        IF j < Len(C) THEN 0 ELSE sign * EigVec(C, i)]]

\* Row i of W @ ufloat_atoms: the products W[i][k] * atom_k (UFloat.__rmul__)
\* summed left to right (UFloat.__add__).
RECURSIVE MatVecRow(_, _, _, _)
MatVecRow(W, atoms, i, k) ==
    LET prod == Wrapped("__rmul__", <<atoms[k], Real(F(W[i][k]))>>)
    IN IF k = 1 THEN prod
       ELSE Wrapped("__add__", <<MatVecRow(W, atoms, i, k - 1), prod>>)

\* result = np.array(nominal_values) + Y  (UFloat.__radd__)
correlated_values(im, nominal_values, C, sign, uuid0) ==
    LET n == Len(C)
        ufloat_atoms == [k \in 1..n |-> UFloatInit(im, F(0), F(1), uuid0 + k)]
        W == IF CholeskyFails(C) THEN eig_vecs_std_devs(C, sign) ELSE cholesky(C)
    IN [i \in 1..n |->
          Wrapped("__radd__", <<MatVecRow(W, ufloat_atoms, i, n),
                                Real(F(nominal_values[i]))>>)]

\* cov_mat = correlation_matrix * np.outer(std_devs, std_devs), on integers.
NormCovMat(std_devs, correlation) ==
    [i \in 1..Len(correlation) |-> [j \in 1..Len(correlation) |->
        correlation[i][j] * (std_devs[i] * std_devs[j])]]

\* correlated_values_norm(nominal_values, std_devs, correlation_matrix).
\* Without numpy the else branch evaluates np.sqrt with np = None inside its
\* loops, which run when the matrix has a row; an empty matrix reaches
\* correlated_values, which refuses to work without numpy.
correlated_values_norm(im, numpy, nominal_values, std_devs, correlation, sign, uuid0) ==
    IF numpy
    THEN Returns("array", correlated_values(im, nominal_values,
                              NormCovMat(std_devs, correlation), sign, uuid0))
    ELSE IF Len(correlation) > 0 THEN Raises("AttributeError")
    ELSE Raises("ValueError")

\* +inf or -inf, the quotient numpy gives a nonzero number over zero.
Inf(sgn) == [nan |-> FALSE, surd |-> FALSE, v |-> sgn, d |-> 0]

\* x * y for two square roots x, y >= 0 (np.outer(std_devs, std_devs)).
RootProduct(x, y) == FSqrt(FMul(FSq(x), FSq(y)))

\* numpy's c / r for a rational c and a root r >= 0: 0/0 is nan and c/0 is
\* +-inf, with a warning and no exception.
TrueDivide(c, r) ==
    IF c.nan \/ r.nan THEN NaN
    ELSE IF FIsZero(r)
    THEN (IF FIsZero(c) THEN NaN ELSE Inf(IF c.v < 0 THEN -1 ELSE 1))
    ELSE DivByRoot(c, r)

\* std_devs = np.sqrt(np.diag(cov_mat))
DiagStdDevs(cov_mat) == [k \in 1..Len(cov_mat) |-> FSqrt(cov_mat[k][k])]

\* corr_mat = cov_mat / outer_std_devs ; corr_mat[cov_mat == 0] = 0
CorrCell(cov_mat, i, j) ==
    IF FIsZero(cov_mat[i][j]) THEN F(0)
    ELSE TrueDivide(cov_mat[i][j],
                    RootProduct(DiagStdDevs(cov_mat)[i], DiagStdDevs(cov_mat)[j]))

\* correlation_matrix(ufloats), given the covariance matrix of the values.
\* Without numpy the else branch evaluates np.sqrt with np = None inside its
\* loops, which run when there is a value; no value gives the empty matrix.
correlation_matrix(numpy, cov_mat) ==
    IF numpy
    THEN Returns("matrix", [i \in 1..Len(cov_mat) |-> [j \in 1..Len(cov_mat) |->
                               CorrCell(cov_mat, i, j)]])
    ELSE IF Len(cov_mat) > 0 THEN Raises("AttributeError")
    ELSE Returns("matrix", <<>>)

(***************************************************************************)
(* The state machine: a session creating values and querying them.         *)
(***************************************************************************)
VARIABLES
    impl,            \* "new" or "core": the implementation in use
    allow_numpy,     \* covariance.py: whether `import numpy` succeeded
    ufloats,         \* the live UFloat objects, in creation order
    n_atoms,         \* atoms minted so far (the next uuid is n_atoms + 1)
    expand_cache,    \* lru_cache of get_expanded_combo / get_ucombo_dict
    std_dev_cache,   \* lru_cache of get_std_dev
    ret,             \* the last call: [op, args, out]
    eval_locals,     \* the eval_locals dict closed over by each derivative string
    pos_func         \* per thread, the call of a derivative string in progress

vars == <<impl, allow_numpy, ufloats, n_atoms, expand_cache, std_dev_cache, ret,
          eval_locals, pos_func>>

\* Inputs.
Nominals == {F(0), F(2)}
Uncertainties == {F(-1), F(0), F(3), NaN}
Reals == {F(-4), F(0), F(4)}
Means == {<<1, 2>>}
Signs == {1, -1}
\* Positive-definite matrices L L^T and degenerate matrices v v^T.
PosDefCovs == {<<<<1, 0>>, <<0, 4>>>>, <<<<4, 2>>, <<2, 2>>>>, <<<<1, -1>>, <<-1, 5>>>>}
DegenerateCovs == {<<<<1, 2>>, <<2, 4>>>>, <<<<4, -2>>, <<-2, 1>>>>,
                   <<<<0, 0>>, <<0, 9>>>>, <<<<0, 0>>, <<0, 0>>>>}
\* Standard deviations and correlation matrices for correlated_values_norm.
NormStdDevs == {<<1, 2>>, <<0, 3>>}
Correlations == {<<<<1, 0>>, <<0, 1>>>>, <<<<1, 1>>, <<1, 1>>>>, <<<<1, -1>>, <<-1, 1>>>>}
\* Largest number of values handed to covariance_matrix.
MaxCovLen == 2
\* Deepest nesting a rebinding x = x op y may build.
MaxDepth == 2
\* Most atoms a behaviour mints before truthiness is no longer asked.
MaxAtoms == 4

\* Threads calling lifted functions.
Threads == {1, 2}
\* The derivative strings followed through their calls: 'y' and 'x' of
\* float_funcs_dict['__mul__'], by operator and parameter.
StrFuncs == {[func_name |-> "__mul__", param |-> 0],
             [func_name |-> "__mul__", param |-> 1]}
\* The floats the derivative strings are called with.
DerivArgs == {F(2), F(3)}

\* A name eval_locals does not hold yet.
Unset == [kind |-> "unset"]
\* No call in progress.
Idle == [pc |-> "idle"]

Call(op, args, out) == [op |-> op, args |-> args, out |-> out]

Init ==
    /\ impl \in {"new", "core"}
    /\ allow_numpy \in BOOLEAN
    /\ ufloats = <<>>
    /\ n_atoms = 0
    /\ expand_cache = EmptyCache
    /\ std_dev_cache = EmptyCache
    /\ ret = Call("none", <<>>, Returns("none", F(0)))
    /\ eval_locals = [key \in StrFuncs |-> [x |-> Unset, y |-> Unset]]
    /\ pos_func = [t \in Threads |-> Idle]

\* UFloat(value, uncertainty) / ufloat(value, uncertainty)
Construct(value, uncertainty) ==
    /\ Len(ufloats) < MaxUFloats
    /\ LET out == UFloatInit(impl, value, uncertainty, n_atoms + 1)
       IN /\ ret' = Call("UFloat", <<value, uncertainty>>, out)
          /\ IF out.kind = "raise"
             THEN UNCHANGED <<ufloats, n_atoms>>
             ELSE /\ ufloats' = Append(ufloats, out)
                  /\ n_atoms' = n_atoms + 1
    /\ UNCHANGED <<impl, allow_numpy, eval_locals, pos_func, expand_cache, std_dev_cache>>

\* A lifted call that expands the combination it builds at once.
LiftExpanding(f, args) ==
    /\ Len(ufloats) < MaxUFloats
    /\ LET out == Wrapped(f, args)
       IN /\ ret' = Call(f, args, out)
          /\ ufloats' = IF IsUFloat(out) THEN Append(ufloats, out)
                         ELSE ufloats
          /\ expand_cache' = IF IsUFloat(out)
                              THEN CacheAfter(impl, expand_cache, out.uncertainty)
                              ELSE expand_cache
    /\ UNCHANGED <<impl, allow_numpy, eval_locals, pos_func, n_atoms, std_dev_cache>>

\* A lifted operator called on args; the UFloat it returns stays live.
Lift(f, args) ==
    /\ Len(ufloats) < MaxUFloats
    /\ LET out == Wrapped(f, args)
       IN /\ ret' = Call(f, args, out)
          /\ ufloats' = IF IsUFloat(out) THEN Append(ufloats, out)
                         ELSE ufloats
    /\ UNCHANGED <<impl, allow_numpy, eval_locals, pos_func, n_atoms, expand_cache, std_dev_cache>>

\* +x, -x
UnaryOp ==
    \E f \in UnaryFuncs, i \in 1..Len(ufloats) : Lift(f, <<ufloats[i]>>)

\* x op y on two UFloat, op among funcs
BinaryOp(funcs) ==
    \E f \in funcs, i, j \in 1..Len(ufloats) :
        Lift(f, <<ufloats[i], ufloats[j]>>)

\* x op c and c op x with a plain real c
RealOp ==
    \E f \in BinaryFuncs, i \in 1..Len(ufloats), c \in Reals :
        Lift(f, <<ufloats[i], Real(c)>>)

\* A result the model's exact numbers hold: no irrational nominal value or
\* weight.
Exact(out) ==
    CASE out.kind = "UFloat" ->
            /\ ~out.val.surd
            /\ \A k \in 1..Len(out.uncertainty.combo) : ~out.uncertainty.combo[k][2].surd
      [] out.kind = "float" -> ~out.value.surd
      [] OTHER -> TRUE

Arity(f) == IF f \in UnaryFuncs \cup {"sqrt"} THEN 1 ELSE 2

\* sqrt(x), hypot(x, y) on UFloat
MathOp ==
    \E f \in MathFuncs, i, j \in 1..Len(ufloats) :
        LET args == IF Arity(f) = 1 THEN <<ufloats[i]>> ELSE <<ufloats[i], ufloats[j]>>
        IN /\ Arity(f) = 1 => i = j
           /\ Exact(Wrapped(f, args))
           /\ Lift(f, args)

\* A lifted operator or function called on plain reals only.
PlainOp ==
    \E f \in UnaryFuncs \cup BinaryFuncs \cup MathFuncs, c, d \in Reals :
        LET args == IF Arity(f) = 1 THEN <<Real(c)>> ELSE <<Real(c), Real(d)>>
        IN /\ Arity(f) = 1 => c = d
           /\ Exact(Wrapped(f, args))
           /\ Lift(f, args)

\* x op obj, hypot(x, obj) and hypot(obj, x) for an opaque obj.
OpaqueOp ==
    \E f \in BinaryFuncs \cup {"hypot"}, i \in 1..Len(ufloats), pos \in {1, 2} :
        LET args == IF pos = 2 THEN <<ufloats[i], Opaque>> ELSE <<Opaque, ufloats[i]>>
        IN /\ f # "hypot" => pos = 2
           /\ ret' = Call(f, args, WrappedOpaque(impl, f, args))
           /\ UNCHANGED <<impl, allow_numpy, eval_locals, pos_func, ufloats, n_atoms, expand_cache,
                          std_dev_cache>>

\* ToUFuncPositional(deriv_funcs)(float_func), the body of the loop of
\* add_float_funcs_to_ufloat.
AddFloatFunc ==
    \E func_name \in UnaryFuncs \cup BinaryFuncs \cup NumericFuncs :
        /\ ret' = Call("ToUFuncPositional", <<float_funcs_dict(func_name)>>,
                       deriv_func_dict_positional_helper(impl,
                                                         float_funcs_dict(func_name)))
        /\ UNCHANGED <<impl, allow_numpy, eval_locals, pos_func, ufloats, n_atoms, expand_cache,
                       std_dev_cache>>

\* Largest nominal value handed to a numerically differentiated operator.
MaxNumeric == 8
\* The plain reals of x ** c, c ** x, x % c and c % x.
NumericReals == {F(0), F(1), F(2), F(3)}

\* The points at which the central difference evaluates f are rationals.
NumericExact(f, x, c) ==
    /\ ~x.nan /\ ~x.surd /\ x.d = 1 /\ Abs(x.v) <= MaxNumeric
    /\ f = "__pow__" => c \in {F(0), F(1), F(2)}
    /\ f = "__rpow__" => c = F(1)

\* x ** c, c ** x, x % c, c % x with a plain real c, on a lifted operator
\* whose entries are unset (new/ufloat.py) or absent (ToUFunc of
\* new/func_conversion.py with an empty deriv_func_dict).
NumericOp ==
    \E f \in NumericFuncs, i \in 1..Len(ufloats), c \in NumericReals :
        /\ NumericExact(f, ufloats[i].val, c)
        /\ Lift(f, <<ufloats[i], Real(c)>>)

\* Nesting depth of a combination.
RECURSIVE Depth(_)
Depth(combo) ==
    LET nested == {k \in 1..Len(combo.combo) : ~IsAtom(combo.combo[k][1])}
        depths == {Depth(combo.combo[k][1]) : k \in nested}
    IN IF depths = {} THEN 1
       ELSE 1 + (CHOOSE d \in depths : \A e \in depths : e <= d)

\* x = x op y: the name of the left operand is rebound to the result, which
\* keeps the operand's combination alive as a nested term.
AugAssign(funcs) ==
    \E f \in funcs, i, j \in 1..Len(ufloats) :
        LET out == Wrapped(f, <<ufloats[i], ufloats[j]>>)
        IN /\ out.kind # "raise"
           /\ Depth(out.uncertainty) <= MaxDepth
           /\ ret' = Call(f, <<ufloats[i], ufloats[j]>>, out)
           /\ ufloats' = [ufloats EXCEPT ![i] = out]
           /\ UNCHANGED <<impl, allow_numpy, eval_locals, pos_func, n_atoms, expand_cache, std_dev_cache>>

\* get_expanded_combo / get_ucombo_dict called on an expansion.  The tuple of
\* (atom, weight) pairs new/ufloat.py returns is itself a combination; the
\* dict ucombo.py returns is not hashable, so the lru_cache refuses it.
ExpandExpansion(im, cache, expanded) ==
    IF im = "core" THEN Raises("TypeError")
    ELSE Returns("expansion", get_expanded_combo(im, cache, UCombo(expanded)))

\* get_expanded_combo(get_expanded_combo(x.uncertainty))
ExpandTwice ==
    \E i \in 1..Len(ufloats) :
        LET combo == ufloats[i].uncertainty
            expanded == get_expanded_combo(impl, expand_cache, combo)
            cache == CacheAfter(impl, expand_cache, combo)
        IN /\ ret' = Call("get_expanded_combo", <<expanded>>,
                          ExpandExpansion(impl, cache, expanded))
           /\ expand_cache' = IF impl = "core" THEN cache
                               ELSE CacheAfter(impl, cache, UCombo(expanded))
           /\ UNCHANGED <<impl, allow_numpy, eval_locals, pos_func, ufloats, n_atoms, std_dev_cache>>

\* eval(func_str, None, eval_locals) with the x and y eval_locals holds.
EvalStr(key, locals) == DerivFunc(key.func_name, key.param, <<locals.x, locals.y>>)

\* pos_func(x, y) of func_str_to_positional_func, first statement:
\* eval_locals['x'] = x.  The dict is the one the closure was created with.
PosFuncSetX ==
    \E t \in Threads, key \in StrFuncs, x, y \in DerivArgs :
        /\ pos_func[t] = Idle
        /\ pos_func' = [pos_func EXCEPT ![t] = [pc |-> "x", key |-> key, x |-> x, y |-> y]]
        /\ eval_locals' = [eval_locals EXCEPT ![key].x = x]
        /\ UNCHANGED <<impl, allow_numpy, ufloats, n_atoms, expand_cache,
                       std_dev_cache, ret>>

\* second statement: eval_locals['y'] = y
PosFuncSetY ==
    \E t \in Threads :
        /\ pos_func[t].pc = "x"
        /\ pos_func' = [pos_func EXCEPT ![t].pc = "y"]
        /\ eval_locals' = [eval_locals EXCEPT ![pos_func[t].key].y = pos_func[t].y]
        /\ UNCHANGED <<impl, allow_numpy, ufloats, n_atoms, expand_cache,
                       std_dev_cache, ret>>

\* third statement: return eval(func_str, None, eval_locals)
PosFuncEval ==
    \E t \in Threads :
        LET call == pos_func[t]
        IN /\ call.pc = "y"
           /\ ret' = Call("pos_func", <<call.key, call.x, call.y>>,
                          Returns("float", EvalStr(call.key, eval_locals[call.key])))
           /\ pos_func' = [pos_func EXCEPT ![t] = Idle]
           /\ UNCHANGED <<impl, allow_numpy, ufloats, n_atoms, expand_cache,
                          std_dev_cache, eval_locals>>

\* The interpreter's recursion limit, counted in nested calls of
\* get_expanded_combo.
RecursionLimit == 3
\* Deepest nesting a running total is given.
MaxChainDepth == 4

\* get_expanded_combo(combo) as the interpreter runs it, entered at recursion
\* depth `depth`: a cached combination returns at once; otherwise the terms
\* are expanded in order, each nested combination by a recursive call, and
\* the result is cached on return.  A call past the recursion limit raises
\* RecursionError, which unwinds every caller; what returned before stays
\* cached.  The result is [ok, cache].
RECURSIVE ExpandWithinLimit(_, _, _, _)
RECURSIVE ExpandTermsWithinLimit(_, _, _, _, _)
ExpandTermsWithinLimit(im, cache, terms, k, depth) ==
    IF k > Len(terms) THEN [ok |-> TRUE, cache |-> cache]
    ELSE IF IsAtom(terms[k][1])
    THEN ExpandTermsWithinLimit(im, cache, terms, k + 1, depth)
    ELSE LET nested == ExpandWithinLimit(im, cache, terms[k][1], depth + 1)
         IN IF ~nested.ok THEN nested
            ELSE ExpandTermsWithinLimit(im, nested.cache, terms, k + 1, depth)

ExpandWithinLimit(im, cache, combo, depth) ==
    IF combo \in DOMAIN cache THEN [ok |-> TRUE, cache |-> cache]
    ELSE IF depth > RecursionLimit THEN [ok |-> FALSE, cache |-> cache]
    ELSE LET terms == ExpandTermsWithinLimit(im, cache, combo.combo, 1, depth)
         IN IF ~terms.ok THEN terms
            ELSE [ok |-> TRUE, cache |-> CacheAfter(im, terms.cache, combo)]

\* total = total + y: the running total keeps its previous combination as a
\* nested term.
Accumulate ==
    \E i, j \in 1..Len(ufloats) :
        LET out == Wrapped("__add__", <<ufloats[i], ufloats[j]>>)
        IN /\ Depth(out.uncertainty) <= MaxChainDepth
           /\ ret' = Call("__add__", <<ufloats[i], ufloats[j]>>, out)
           /\ ufloats' = [ufloats EXCEPT ![i] = out]
           /\ UNCHANGED <<impl, allow_numpy, eval_locals, pos_func, n_atoms,
                          expand_cache, std_dev_cache>>

\* get_expanded_combo(x.uncertainty) / x.uncertainty.expanded_dict
Expanded ==
    \E i \in 1..Len(ufloats) :
        LET combo == ufloats[i].uncertainty
            run == ExpandWithinLimit(impl, expand_cache, combo, 1)
        IN /\ ret' = Call("expanded", <<ufloats[i]>>,
                          IF run.ok THEN Returns("expansion", run.cache[combo])
                          ELSE Raises("RecursionError"))
           /\ expand_cache' = run.cache
           /\ UNCHANGED <<impl, allow_numpy, eval_locals, pos_func, ufloats,
                          n_atoms, std_dev_cache>>

\* d = x.error_components; del d[atom]: the caller changes the expansion it
\* was handed.  ucombo.py hands out the dict that the lru_cache holds, so the
\* cache entry changes with it; new/ufloat.py hands out a tuple, which
\* refuses the deletion.
DelItem ==
    /\ ret.op = "expanded"
    /\ ret.out.kind # "raise"
    /\ \E k \in 1..Len(ret.out.value) :
          LET combo == ret.args[1].uncertainty
              d == ret.out.value
              without == [j \in 1..(Len(d) - 1) |->
                            IF j < k THEN d[j] ELSE d[j + 1]]
          IN IF impl = "new"
             THEN /\ ret' = Call("__delitem__", <<d, k>>, Raises("TypeError"))
                  /\ UNCHANGED expand_cache
             ELSE /\ ret' = Call("__delitem__", <<d, k>>,
                                 Returns("expansion", without))
                  /\ expand_cache' = [expand_cache EXCEPT ![combo] = without]
    /\ UNCHANGED <<impl, allow_numpy, eval_locals, pos_func, ufloats, n_atoms,
                   std_dev_cache>>

\* del x: the last reference to a value goes away.  Both caches are
\* lru_cache(maxsize=None): they hold their keys strongly and evict nothing.
Del ==
    \E i \in 1..Len(ufloats) :
        /\ ret' = Call("del", <<ufloats[i]>>, Returns("none", F(0)))
        /\ ufloats' = [k \in 1..(Len(ufloats) - 1) |->
                          IF k < i THEN ufloats[k] ELSE ufloats[k + 1]]
        /\ UNCHANGED <<impl, allow_numpy, eval_locals, pos_func, n_atoms, expand_cache, std_dev_cache>>

\* x.std_dev
StdDev ==
    \E i \in 1..Len(ufloats) :
        LET combo == ufloats[i].uncertainty
        IN /\ UNCHANGED <<impl, allow_numpy, eval_locals, pos_func, ufloats, n_atoms>>
           /\ IF impl = "new" /\ combo \in DOMAIN std_dev_cache
              THEN /\ ret' = Call("std_dev", <<ufloats[i]>>,
                                  Returns("float", std_dev_cache[combo]))
                   /\ UNCHANGED <<expand_cache, std_dev_cache>>
              ELSE LET out == get_std_dev(impl,
                                  get_expanded_combo(impl, expand_cache, combo))
                   IN /\ ret' = Call("std_dev", <<ufloats[i]>>, out)
                      /\ expand_cache' = CacheAfter(impl, expand_cache, combo)
                      /\ std_dev_cache' =
                            IF out.kind = "raise" THEN std_dev_cache
                            ELSE [c \in DOMAIN std_dev_cache \cup {combo} |->
                                    IF c = combo THEN out.value
                                    ELSE std_dev_cache[c]]

\* new/ufloat.py __eq__: both expansions are taken, then compared as tuples.
EqNew(a, b) ==
    /\ a.val = b.val
    /\ get_expanded_combo("new", expand_cache, a.uncertainty)
         = get_expanded_combo("new", expand_cache, b.uncertainty)

\* ufloat.py __eq__: self.n == other.n and the expanded dicts are equal.
\* (Weights are compared as exact numbers; no NaN weight is compared in the
\* behaviours below.)
EqCore(a, b) ==
    /\ a.val = b.val
    /\ LET da == get_expanded_combo("core", expand_cache, a.uncertainty)
           db == get_expanded_combo("core", expand_cache, b.uncertainty)
       IN {da[k] : k \in 1..Len(da)} = {db[k] : k \in 1..Len(db)}

\* x == y
Eq ==
    \E i, j \in 1..Len(ufloats) :
        LET a == ufloats[i]
            b == ufloats[j]
        IN /\ ret' = Call("__eq__", <<a, b>>,
                          Returns("bool", IF impl = "new" THEN EqNew(a, b)
                                          ELSE EqCore(a, b)))
           /\ expand_cache' =
                 IF impl = "core" /\ a.val # b.val THEN expand_cache
                 ELSE CacheAfterAll(impl, expand_cache, <<a, b>>, 1)
           /\ UNCHANGED <<impl, allow_numpy, eval_locals, pos_func, ufloats, n_atoms, std_dev_cache>>

\* Truthiness by the nominal value alone.
BoolByNominal(self, zero, eq) == self.val # zero.val

\* __bool__: self != UFloat(0, 0); != is the negation of __eq__.
__bool__(self, zero, eq) == ~eq

\* bool(x): the comparison value UFloat(0, 0) is constructed, with its own
\* atom, and dropped after the comparison.
Bool ==
    /\ n_atoms < MaxAtoms
    /\ \E i \in 1..Len(ufloats) :
          LET self == ufloats[i]
              zero == UFloatInit(impl, F(0), F(0), n_atoms + 1)
              eq == IF impl = "new" THEN EqNew(self, zero) ELSE EqCore(self, zero)
          IN /\ ret' = Call("__bool__", <<self>>,
                            Returns("bool", __bool__(self, zero, eq)))
             /\ expand_cache' =
                   IF impl = "core" /\ self.val # zero.val THEN expand_cache
                   ELSE CacheAfterAll(impl, expand_cache, <<self, zero>>, 1)
    /\ n_atoms' = n_atoms + 1
    /\ UNCHANGED <<impl, allow_numpy, eval_locals, pos_func, ufloats, std_dev_cache>>

\* ufloat.py __hash__: hash((hash(self.val), hash(self.uncertainty))), the
\* UCombo being a frozen dataclass hashed over its tuple of terms.  A hash is
\* modelled by what it is computed from: equal inputs give equal hashes, and
\* different inputs are taken to give different ones.  new/ufloat.py defines
\* __eq__ and no __hash__, which leaves the class unhashable.
__hash__(im, self) ==
    IF im = "new" THEN Raises("TypeError")
    ELSE Returns("int", <<self.val, self.uncertainty>>)

\* hash(x)
Hash ==
    \E i \in 1..Len(ufloats) :
        /\ ret' = Call("__hash__", <<ufloats[i]>>, __hash__(impl, ufloats[i]))
        /\ UNCHANGED <<impl, allow_numpy, eval_locals, pos_func, ufloats, n_atoms, expand_cache,
                       std_dev_cache>>

\* covariance_matrix(ufloats)
CovarianceMatrix ==
    /\ impl = "core"
    /\ \E n \in 1..MaxCovLen : \E idx \in [1..n -> 1..Len(ufloats)] :
          LET ufs == [k \in 1..n |-> ufloats[idx[k]]]
              dicts == [k \in 1..n |->
                          get_expanded_combo(impl, expand_cache, ufs[k].uncertainty)]
          IN /\ ret' = Call("covariance_matrix", ufs,
                            Returns("matrix", covariance_matrix(dicts)))
             /\ expand_cache' = CacheAfterAll(impl, expand_cache, ufs, 1)
    /\ UNCHANGED <<impl, allow_numpy, eval_locals, pos_func, ufloats, n_atoms, std_dev_cache>>

\* correlated_values(nominal_values, covariance_matrix)
CorrelatedValues ==
    \E means \in Means, C \in PosDefCovs \cup DegenerateCovs, sign \in Signs :
        /\ Len(ufloats) + Len(C) <= MaxUFloats
        /\ IF ~allow_numpy
           THEN /\ ret' = Call("correlated_values", <<means, C>>, Raises("ValueError"))
                /\ UNCHANGED <<ufloats, n_atoms>>
           ELSE LET result == correlated_values(impl, means, C, sign, n_atoms)
                IN /\ ret' = Call("correlated_values", <<means, C>>,
                                  Returns("array", result))
                   /\ ufloats' = ufloats \o result
                   /\ n_atoms' = n_atoms + Len(C)
        /\ UNCHANGED <<impl, allow_numpy, eval_locals, pos_func, expand_cache, std_dev_cache>>

\* correlated_values_norm(nominal_values, std_devs, correlation_matrix)
CorrelatedValuesNorm ==
    \E means \in Means, std_devs \in NormStdDevs, correlation \in Correlations,
       sign \in Signs :
        /\ Len(ufloats) + Len(correlation) <= MaxUFloats
        /\ LET out == correlated_values_norm(impl, allow_numpy, means, std_devs,
                                              correlation, sign, n_atoms)
           IN /\ ret' = Call("correlated_values_norm",
                             <<means, std_devs, correlation, sign>>, out)
              /\ IF out.kind = "raise"
                 THEN UNCHANGED <<ufloats, n_atoms>>
                 ELSE /\ ufloats' = ufloats \o out.value
                      /\ n_atoms' = n_atoms + Len(correlation)
        /\ UNCHANGED <<impl, allow_numpy, eval_locals, pos_func, expand_cache, std_dev_cache>>

\* correlation_matrix(ufloats)
CorrelationMatrix ==
    /\ impl = "core"
    /\ \E n \in 0..MaxCovLen : \E idx \in [1..n -> 1..Len(ufloats)] :
          LET ufs == [k \in 1..n |-> ufloats[idx[k]]]
              dicts == [k \in 1..n |->
                          get_expanded_combo(impl, expand_cache, ufs[k].uncertainty)]
          IN /\ ret' = Call("correlation_matrix", ufs,
                            correlation_matrix(allow_numpy, covariance_matrix(dicts)))
             /\ expand_cache' = CacheAfterAll(impl, expand_cache, ufs, 1)
    /\ UNCHANGED <<impl, allow_numpy, eval_locals, pos_func, ufloats, n_atoms, std_dev_cache>>

\* Construction, arithmetic and standard deviation.
Next ==
    \/ \E value \in Nominals \cup {NaN}, uncertainty \in Uncertainties :
          Construct(value, uncertainty)
    \/ BinaryOp({"__add__", "__sub__"})
    \/ StdDev

Spec == Init /\ [][Next]_vars

\* Every lifted operator, no query.
NextLift ==
    \/ \E value \in Nominals, uncertainty \in Uncertainties :
          Construct(value, uncertainty)
    \/ UnaryOp
    \/ BinaryOp({"__add__", "__sub__", "__mul__", "__truediv__"})
    \/ RealOp

SpecLift == Init /\ [][NextLift]_vars

\* Equality of sums built in either order.
NextEq ==
    \/ \E value \in {F(2)}, uncertainty \in {F(3)} :
          Construct(value, uncertainty)
    \/ BinaryOp({"__add__"})
    \/ AugAssign({"__add__"})
    \/ Eq

SpecEq == Init /\ [][NextEq]_vars

\* Covariance and correlated values.
NextCov ==
    \/ \E value \in {F(2)}, uncertainty \in {F(0), F(3)} :
          Construct(value, uncertainty)
    \/ BinaryOp({"__add__"})
    \/ StdDev
    \/ Eq
    \/ CovarianceMatrix
    \/ CorrelatedValues

SpecCov == Init /\ [][NextCov]_vars

\* Correlation matrices and values from correlations.
NextNorm ==
    \/ \E value \in {F(2)}, uncertainty \in {F(0), F(3)} :
          Construct(value, uncertainty)
    \/ BinaryOp({"__add__", "__sub__"})
    \/ CorrelatedValuesNorm
    \/ CorrelationMatrix

SpecNorm == Init /\ [][NextNorm]_vars

\* Calls of lifted operators and functions: on values, on plain reals, and
\* on opaque arguments.
NextCall ==
    \/ \E value \in {F(-1), F(0), F(3)}, uncertainty \in {F(2)} :
          Construct(value, uncertainty)
    \/ BinaryOp({"__truediv__"})
    \/ MathOp
    \/ PlainOp
    \/ OpaqueOp

SpecCall == Init /\ [][NextCall]_vars

\* Truthiness, equality and hashing.
NextTruth ==
    \/ \E value \in {F(0), F(2)}, uncertainty \in {F(0), F(3), Tiny, NaN} :
          Construct(value, uncertainty)
    \/ BinaryOp({"__add__", "__sub__"})
    \/ Bool
    \/ Hash

SpecTruth == Init /\ [][NextTruth]_vars

\* Registration of the float operators and calls of the numerically
\* differentiated ones.
NextNumeric ==
    \/ \E value \in {F(0), F(4)}, uncertainty \in {F(1)} :
          Construct(value, uncertainty)
    \/ AddFloatFunc
    \/ NumericOp
    \/ BinaryOp({"__sub__"})

SpecNumeric == Init /\ [][NextNumeric]_vars

\* Expansions and expansions of expansions.
NextExpand ==
    \/ \E value \in {F(2)}, uncertainty \in {F(0), F(3), NaN} :
          Construct(value, uncertainty)
    \/ BinaryOp({"__add__", "__sub__"})
    \/ ExpandTwice

SpecExpand == Init /\ [][NextExpand]_vars

\* Calls of derivative strings from several threads.
NextThreads ==
    \/ PosFuncSetX
    \/ PosFuncSetY
    \/ PosFuncEval

SpecThreads == Init /\ [][NextThreads]_vars

\* Most atoms minted where values are dropped.
MaxDelAtoms == 2

\* The number of live values in the specification of all operations.
MaxAllUFloats == 2

\* Expansions handed to a caller that changes them.
NextHandOut ==
    \/ /\ n_atoms < MaxDelAtoms
       /\ \E value \in {F(2)}, uncertainty \in {F(3)} :
             Construct(value, uncertainty) /\ Len(ufloats') <= MaxAllUFloats
    \/ /\ BinaryOp({"__add__", "__sub__"})
       /\ Len(ufloats') <= MaxAllUFloats
       /\ Depth(ret'.out.uncertainty) <= MaxDepth
    \/ Expanded
    \/ DelItem
    \/ StdDev
    \/ Del

SpecHandOut == Init /\ [][NextHandOut]_vars

\* Running totals and their expansion.
NextChain ==
    \/ \E value \in {F(1)}, uncertainty \in {F(1)} :
          Construct(value, uncertainty) /\ Len(ufloats') <= MaxAllUFloats
    \/ Accumulate
    \/ Expanded

SpecChain == Init /\ [][NextChain]_vars

\* Values that are queried and then dropped.
NextDel ==
    \/ \E value \in {F(2)}, uncertainty \in {F(3)} :
          Construct(value, uncertainty) /\ n_atoms < MaxDelAtoms
    \/ /\ BinaryOp({"__add__"})
       /\ Len(ufloats') <= MaxAllUFloats
       /\ Depth(ret'.out.uncertainty) <= MaxDepth
    \/ StdDev
    \/ Eq
    \/ Del

SpecDel == Init /\ [][NextDel]_vars

\* Every kind of operation on one kind of value: construction, arithmetic,
\* lifted functions, comparison, truthiness, std_dev and covariance queries,
\* and correlated values.
NextAll ==
    \/ \E value \in {F(4)}, uncertainty \in {F(3)} :
          Construct(value, uncertainty) /\ Len(ufloats') <= MaxAllUFloats
    \/ BinaryOp({"__add__"}) /\ Len(ufloats') <= MaxAllUFloats
    \/ MathOp /\ Len(ufloats') <= MaxAllUFloats
    \/ StdDev
    \/ Eq
    \/ Bool
    \/ CovarianceMatrix
    \/ CorrelatedValues /\ Len(ufloats') <= MaxAllUFloats

SpecAll == Init /\ [][NextAll]_vars

(***************************************************************************)
(* Properties.                                                             *)
(***************************************************************************)
\* The expansion of a combination, computed afresh.
Expand(combo) == get_expanded_combo(impl, EmptyCache, combo)

\* The weight an expansion gives an atom, 0.0 when the atom is absent.
WeightOf(d, atom) == IF HasKey(d, atom) THEN DictGet(d, atom) ELSE F(0)

\* A combination somewhere holding a NaN: a NaN weight, or an atom whose
\* std_dev is NaN.
RECURSIVE Tainted(_)
Tainted(combo) ==
    \E k \in 1..Len(combo.combo) :
        LET term == combo.combo[k][1]
        IN \/ isnan(combo.combo[k][2])
           \/ IF IsAtom(term)
              THEN "std_dev" \in DOMAIN term /\ isnan(term.std_dev)
              ELSE Tainted(term)

\* v is the result of x - x: one combination taken with weights 1 and -1.
SelfDifference(v) ==
    /\ IsUFloat(v)
    /\ Len(v.uncertainty.combo) = 2
    /\ v.uncertainty.combo[1][1] = v.uncertainty.combo[2][1]
    /\ v.uncertainty.combo[1][2] = F(1)
    /\ v.uncertainty.combo[2][2] = F(-1)

PartialDerivative(f, param, a) ==
    CASE f = "__pos__" -> F(1)
      [] f = "__neg__" -> F(-1)
      [] f \in {"__add__", "__radd__"} -> F(1)
      [] f = "__sub__" -> IF param = 0 THEN F(1) ELSE F(-1)
      [] f = "__rsub__" -> IF param = 0 THEN F(-1) ELSE F(1)
      [] f \in {"__mul__", "__rmul__"} -> IF param = 0 THEN a[2] ELSE a[1]
      [] f = "__truediv__" ->
            IF param = 0 THEN FDiv(F(1), a[2])
            ELSE FDiv(FNeg(a[1]), FSq(a[2]))
      [] f = "__rtruediv__" ->
            IF param = 0 THEN FDiv(FNeg(a[2]), FSq(a[1]))
            ELSE FDiv(F(1), a[1])

\* The atoms of the expansions of the UFloat arguments.
ArgAtoms(args) ==
    UNION {Keys(Expand(args[k].uncertainty)) : k \in {j \in 1..Len(args) : IsUFloat(args[j])}}

\* Sum over the UFloat arguments args[k..] of derivative times the weight of
\* atom in that argument's expansion.
RECURSIVE ChainRule(_, _, _, _)
ChainRule(f, args, atom, k) ==
    IF k > Len(args) THEN F(0)
    ELSE FAdd(IF IsUFloat(args[k])
              THEN FMul(PartialDerivative(f, k - 1, FloatArgs(args)),
                        WeightOf(Expand(args[k].uncertainty), atom))
              ELSE F(0),
              ChainRule(f, args, atom, k + 1))

\* C2: a lifted operator called with at least one Value returns a Value whose
\* nominal value is the plain function of the nominal values and whose
\* expansion gives every atom the sum over the Value arguments of (partial
\* derivative with respect to that argument) times (the atom's weight in that
\* argument's expansion).
C2_LiftedWeights ==
    (/\ ret.op \in UnaryFuncs \cup BinaryFuncs
     /\ ret.out.kind # "raise")
       => /\ IsUFloat(ret.out)
          /\ ret.out.val = FloatFunc(ret.op, FloatArgs(ret.args))
          /\ \A atom \in ArgAtoms(ret.args) :
                WeightOf(Expand(ret.out.uncertainty), atom)
                  = ChainRule(ret.op, ret.args, atom, 1)

\* The standard deviation an expansion stands for: the root of the sum of
\* the squared weights, each scaled by its atom's std_dev where atoms carry
\* one (the atoms of ucombo.py have unit variance).
Sigma(d) ==
    FSqrt(SumSeq([k \in 1..Len(d) |->
            FSq(IF "std_dev" \in DOMAIN d[k][1]
                THEN FMul(d[k][2], d[k][1].std_dev)
                ELSE d[k][2])], 1))

\* v is the result of x + y for two values x, y that share no atom.
IndependentSum(v) ==
    /\ IsUFloat(v)
    /\ Len(v.uncertainty.combo) = 2
    /\ v.uncertainty.combo[1][2] = F(1)
    /\ v.uncertainty.combo[2][2] = F(1)
    /\ ~IsAtom(v.uncertainty.combo[1][1])
    /\ ~IsAtom(v.uncertainty.combo[2][1])
    /\ Keys(Expand(v.uncertainty.combo[1][1]))
          \cap Keys(Expand(v.uncertainty.combo[2][1])) = {}

\* C3: the std_dev of the sum of two independent Values of standard
\* deviations s1 and s2 is sqrt(s1^2 + s2^2).
C3_SumInQuadrature ==
    (ret.op = "std_dev" /\ IndependentSum(ret.args[1]))
      => LET s1 == Sigma(Expand(ret.args[1].uncertainty.combo[1][1]))
             s2 == Sigma(Expand(ret.args[1].uncertainty.combo[2][1]))
         IN ret.out = Returns("float", FSqrt(FAdd(FSq(s1), FSq(s2))))

\* The atom-to-weight mapping of an expansion, order left aside.
AsMapping(d) == {d[k] : k \in 1..Len(d)}

\* C4: two Values compare equal if and only if their nominal values are
\* equal and their expansions contain the same atoms with the same weights.
C4_EqualIffSameExpansion ==
    ret.op = "__eq__"
      => LET a == ret.args[1]
             b == ret.args[2]
         IN ret.out.value
              = (/\ a.val = b.val
                 /\ AsMapping(Expand(a.uncertainty)) = AsMapping(Expand(b.uncertainty)))

\* v was constructed from a bare (nominal, std_dev) pair.
Bare(v) ==
    /\ IsUFloat(v)
    /\ Len(v.uncertainty.combo) = 1
    /\ IsAtom(v.uncertainty.combo[1][1])

\* The std_dev a bare value was constructed with: the std_dev of its atom in
\* new/ufloat.py, the weight of its atom in ufloat.py.
GivenStdDev(v) ==
    IF "std_dev" \in DOMAIN v.uncertainty.combo[1][1]
    THEN v.uncertainty.combo[1][1].std_dev
    ELSE v.uncertainty.combo[1][2]

\* a == b as the implementation in use computes it.
EqOf(a, b) == IF impl = "new" THEN EqNew(a, b) ELSE EqCore(a, b)

\* The covariance of a and b as covariance_matrix computes it.
CovOf(a, b) ==
    covariance_matrix(<<Expand(a.uncertainty), Expand(b.uncertainty)>>)

\* Two live values constructed separately from one (nominal, std_dev) pair.
Twins(i, j) ==
    /\ i # j
    /\ Bare(ufloats[i])
    /\ Bare(ufloats[j])
    /\ ufloats[i].val = ufloats[j].val
    /\ GivenStdDev(ufloats[i]) = GivenStdDev(ufloats[j])

C6_NegativeStdDevRefused ==
    (ret.op = "UFloat" /\ FIsNeg(ret.args[2]))
      => ret.out = Raises("ValueError")

\* C7: for every std_dev >= 0 and nominal v, the Value constructed from
\* (v, std_dev) has nominal value v and reports standard deviation std_dev.
C7_ConstructedAsGiven ==
    /\ (ret.op = "UFloat" /\ ~FIsNeg(ret.args[2]) /\ ~isnan(ret.args[2]))
          => (IsUFloat(ret.out) /\ ret.out.val = ret.args[1])
    /\ (/\ ret.op = "std_dev"
        /\ Bare(ret.args[1])
        /\ ~FIsNeg(GivenStdDev(ret.args[1]))
        /\ ~isnan(GivenStdDev(ret.args[1])))
          => ret.out = Returns("float", GivenStdDev(ret.args[1]))

\* Sum over the items (atom, w) of di whose atom is also in dj of
\* w * dj[atom].
RECURSIVE SharedProducts(_, _, _)
SharedProducts(di, dj, k) ==
    IF k > Len(di) THEN F(0)
    ELSE FAdd(IF HasKey(dj, di[k][1])
              THEN FMul(di[k][2], DictGet(dj, di[k][1]))
              ELSE F(0),
              SharedProducts(di, dj, k + 1))

C9_DiagonalIsVariance ==
    ret.op = "covariance_matrix"
      => \A k \in 1..Len(ret.args) :
            LET sd == get_std_dev(impl, Expand(ret.args[k].uncertainty))
            IN /\ sd.kind = "float"
               /\ FSq(sd.value) = ret.out.value[k][k]

\* The integer matrix C as a matrix of floats.
FloatMatrix(C) == [i \in 1..Len(C) |-> [j \in 1..Len(C[i]) |-> F(C[i][j])]]

\* The covariance matrix of a sequence of values, computed afresh.
CovarianceOf(ufs) ==
    covariance_matrix([k \in 1..Len(ufs) |-> Expand(ufs[k].uncertainty)])

C11_NormDelegates ==
    ret.op = "correlated_values_norm"
      => LET means == ret.args[1]
             C == [i \in 1..Len(ret.args[3]) |-> [j \in 1..Len(ret.args[3]) |->
                     ret.args[3][i][j] * ret.args[2][i] * ret.args[2][j]]]
         IN ret.out =
              IF allow_numpy
              THEN Returns("array",
                     correlated_values(impl, means, C, ret.args[4], n_atoms - Len(C)))
              ELSE Raises("ValueError")

\* The entry (i, j) the correlation matrix of the values ufs should hold.
Correlation(ufs, i, j) ==
    LET cov == CovarianceOf(ufs)[i][j]
    IN IF FIsZero(cov) THEN F(0)
       ELSE TrueDivide(cov, RootProduct(Sigma(Expand(ufs[i].uncertainty)),
                                        Sigma(Expand(ufs[j].uncertainty))))

\* C12: correlation_matrix(values) entry (i, j) is covariance(i, j) over
\* std_dev_i * std_dev_j, and every entry of zero covariance, the row and
\* column of a zero-variance Value included, is 0 and not NaN or Inf, with
\* numpy and without it.
C12_CorrelationEntries ==
    ret.op = "correlation_matrix"
      => /\ ret.out.kind = "matrix"
         /\ Len(ret.out.value) = Len(ret.args)
         /\ \A i, j \in 1..Len(ret.args) :
               /\ ret.out.value[i][j] = Correlation(ret.args, i, j)
               /\ FIsZero(CovarianceOf(ret.args)[i][j])
                     => ret.out.value[i][j] = F(0)

ReflectedFuncs == {"__radd__", "__rsub__", "__rmul__", "__rtruediv__"}

\* The operator a reflected operator stands for.
NonReflected(f) ==
    CASE f = "__radd__" -> "__add__"
      [] f = "__rsub__" -> "__sub__"
      [] f = "__rmul__" -> "__mul__"
      [] f = "__rtruediv__" -> "__truediv__"

\* C13: for a plain real c and a Value x, the reflected operators c + x,
\* c - x, c * x and c / x return the nominal value and the expansion of the
\* non-reflected operator applied to a zero-uncertainty Value of nominal c and
\* to x; c * x and x * c have standard deviation |c| * std_dev(x), c + x has
\* standard deviation std_dev(x), and c / x weights x's atoms by -c / x^2.
C13_ReflectedAsDirect ==
    (/\ ret.op \in ReflectedFuncs \cup {"__mul__"}
     /\ IsUFloat(ret.args[1])
     /\ ~IsUFloat(ret.args[2]))
      => LET x == ret.args[1]
             c == ret.args[2].val
             dx == Expand(x.uncertainty)
             direct == Wrapped(NonReflected(ret.op),
                               <<UFloatInit(impl, c, F(0), 0), x>>)
         IN /\ ret.op \in ReflectedFuncs
               => IF direct.kind = "raise" THEN ret.out = direct
                  ELSE /\ IsUFloat(ret.out)
                       /\ ret.out.val = direct.val
                       /\ AsMapping(Expand(ret.out.uncertainty))
                            = AsMapping(Expand(direct.uncertainty))
            /\ ret.op \in {"__mul__", "__rmul__"}
               => FSq(Sigma(Expand(ret.out.uncertainty)))
                    = FMul(FSq(c), FSq(Sigma(dx)))
            /\ ret.op = "__radd__"
               => Sigma(Expand(ret.out.uncertainty)) = Sigma(dx)
            /\ (ret.op = "__rtruediv__" /\ ~FIsZero(x.val))
               => /\ IsUFloat(ret.out)
                  /\ \A atom \in Keys(dx) :
                        WeightOf(Expand(ret.out.uncertainty), atom)
                          = FMul(FDiv(FNeg(c), FSq(x.val)), DictGet(dx, atom))

LiftedFuncs == UnaryFuncs \cup BinaryFuncs \cup MathFuncs

\* A call of a lifted operator or function none of whose arguments is a Value.
PlainCall(call) ==
    /\ call.op \in LiftedFuncs
    /\ \A k \in 1..Len(call.args) : call.args[k].kind = "Real"

\* What the plain function does on the plain arguments of a call.
PlainOutcome(call) ==
    IF FloatFuncRaises(call.op, FloatArgs(call.args))
    THEN Raises(FloatFuncError(call.op, FloatArgs(call.args)))
    ELSE Returns("float", FloatFunc(call.op, FloatArgs(call.args)))

\* C14: a lifted function or operator called with no value-typed argument
\* returns exactly what the wrapped plain function returns on the same
\* arguments, as a plain number and not a Value, and mints no atom.
C14_PlainPassThrough ==
    [][PlainCall(ret')
         => /\ ret'.out = PlainOutcome(ret')
            /\ ~IsUFloat(ret'.out)
            /\ n_atoms' = n_atoms
            /\ ufloats' = ufloats]_vars

\* A lifted function has returned the plain number of a call on plain reals.
C14_Witness ==
    /\ PlainCall(ret)
    /\ ret.op = "hypot"
    /\ ret.out = Returns("float", F(4))
    /\ Len(ufloats) > 0

\* C15: a lifted operator or function that receives, together with a Value,
\* an argument that is neither a Value nor a plain real returns NotImplemented
\* and raises nothing, whatever the position of that argument.
C15_NotImplementedForOthers ==
    (/\ ret.op \in LiftedFuncs
     /\ \E k \in 1..Len(ret.args) : ret.args[k] = Opaque
     /\ \E k \in 1..Len(ret.args) : IsUFloat(ret.args[k]))
      => ret.out = NotImplemented

\* A call on Values and plain reals.
NumericCall(call) ==
    /\ call.op \in LiftedFuncs
    /\ \A k \in 1..Len(call.args) : call.args[k].kind \in {"UFloat", "Real"}

\* The derivatives the lifting takes in a call: one per Value argument.
TakenDerivs(call) == {k \in 1..Len(call.args) : IsUFloat(call.args[k])}

C17_HypotAtOrigin ==
    (/\ ret.op = "hypot"
     /\ Len(ret.args) = 2
     /\ IsUFloat(ret.args[1]) /\ IsUFloat(ret.args[2])
     /\ ret.args[1].val = F(0) /\ ret.args[2].val = F(0))
      => /\ IsUFloat(ret.out)
         /\ Len(ret.out.uncertainty.combo) = 2
         /\ \A k \in 1..2 :
               /\ ret.out.uncertainty.combo[k][1] = ret.args[k].uncertainty
               /\ isnan(ret.out.uncertainty.combo[k][2])

C19_HashFollowsEq ==
    ret.op = "__hash__"
      => /\ ret.out.kind = "int"
         /\ \A j \in 1..Len(ufloats) :
               EqOf(ret.args[1], ufloats[j])
                 => __hash__(impl, ufloats[j]) = ret.out

\* The atoms of a combination, nested ones included.
RECURSIVE AtomsOf(_)
AtomsOf(combo) ==
    UNION {IF IsAtom(combo.combo[k][1]) THEN {combo.combo[k][1]}
           ELSE AtomsOf(combo.combo[k][1]) : k \in 1..Len(combo.combo)}

\* The atoms the live values are built from.
LiveAtoms(ufs) == UNION {AtomsOf(ufs[k].uncertainty) : k \in 1..Len(ufs)}

\* C20: an atom is minted only when a Value is constructed from a bare
\* (nominal, std_dev) pair (one atom) or inside correlated_values (one per
\* basis vector); every minted atom differs from every atom minted before;
\* and no other operation (arithmetic, lifted functions, comparisons,
\* truthiness, std_dev or covariance queries) mints an atom.
C20_AtomsMintedAtConstruction ==
    [][/\ n_atoms' # n_atoms
          => \/ ret'.op = "UFloat" /\ n_atoms' = n_atoms + 1
             \/ /\ ret'.op = "correlated_values"
                /\ n_atoms' = n_atoms + Len(ret'.args[2])
       /\ \A a \in LiveAtoms(ufloats') \ LiveAtoms(ufloats) :
             /\ a.uuid > n_atoms
             /\ a.uuid <= n_atoms'
             /\ \A b \in LiveAtoms(ufloats) : b.uuid # a.uuid]_vars

\* The central difference of f in its first argument at float_args.
CentralDifference(f, float_args) ==
    LET x == float_args[1]
        dx == FMul(FAbs(x), SQRT_EPS)
    IN FDiv(FSub(FloatFunc(f, <<FAdd(x, dx), float_args[2]>>),
                 FloatFunc(f, <<FSub(x, dx), float_args[2]>>)),
            FMul(F(2), dx))

\* C21: a parameter whose derivative entry is absent or None is
\* differentiated numerically: building a lifted function with such an entry
\* succeeds, and a call with a Value in that parameter (**, reflected **, %,
\* reflected %) returns a Value weighted by the central-difference derivative.
C21_UnsetIsNumerical ==
    /\ ret.op = "ToUFuncPositional" => ret.out.kind # "raise"
    /\ (/\ ret.op \in NumericFuncs
        /\ ~FIsZero(ret.args[1].val)
        /\ ~FloatFuncRaises(ret.op, FloatArgs(ret.args)))
       => /\ IsUFloat(ret.out)
          /\ ret.out.uncertainty =
                UCombo(<<<<ret.args[1].uncertainty,
                           CentralDifference(ret.op, FloatArgs(ret.args))>>>>)

\* C22: a lifted call that differentiates numerically in a Value argument
\* whose nominal value is exactly 0 ends with ZeroDivisionError: no derivative
\* and no Value is returned.
C22_ZeroStepRaises ==
    [][(ret'.op \in NumericFuncs /\ FIsZero(ret'.args[1].val))
         => /\ ret'.out = Raises("ZeroDivisionError")
            /\ ufloats' = ufloats]_vars

C22_Witness ==
    /\ ret.op = "__pow__"
    /\ FIsZero(ret.args[1].val)
    /\ ret.args[2] = Real(F(2))
    /\ ret.out = Raises("ZeroDivisionError")

\* The atoms of a combination that stand for a NaN standard deviation: with
\* new/ufloat.py the atoms whose std_dev is NaN, with ucombo.py the atoms a
\* construction weighted by NaN.
RECURSIVE NaNAtoms(_)
NaNAtoms(combo) ==
    UNION {LET term == combo.combo[k][1]
           IN IF ~IsAtom(term) THEN NaNAtoms(term)
              ELSE IF "std_dev" \in DOMAIN term
              THEN (IF isnan(term.std_dev) THEN {term} ELSE {})
              ELSE (IF isnan(combo.combo[k][2]) THEN {term} ELSE {})
           : k \in 1..Len(combo.combo)}

\* C23: in every expansion an atom whose accumulated weight is exactly 0 is
\* absent unless its standard deviation is NaN; an atom whose standard
\* deviation is NaN is never dropped, and the standard deviation of every
\* Value whose combination contains it is NaN.
C23_NaNAtomsKept ==
    /\ \A combo \in DOMAIN expand_cache :
          LET d == expand_cache[combo]
          IN /\ \A k \in 1..Len(d) :
                   FIsZero(d[k][2]) => d[k][1] \in NaNAtoms(combo)
             /\ \A atom \in NaNAtoms(combo) : HasKey(d, atom)
    /\ (ret.op = "std_dev" /\ NaNAtoms(ret.args[1].uncertainty) # {})
          => ret.out = Returns("float", NaN)

\* Two tuples of terms holding the same (term, weight) pairs, each as often,
\* in different orders.
Reordered(s, t) ==
    /\ Len(s) = Len(t)
    /\ s # t
    /\ \E p \in Permutations(1..Len(s)) : \A k \in 1..Len(s) : t[k] = s[p[k]]

\* expansion == expansion as the implementation compares expansions: tuples
\* of (atom, weight) pairs in new/ufloat.py, dicts in ufloat.py.
ExpansionsEqual(im, da, db) ==
    IF im = "new" THEN da = db ELSE AsMapping(da) = AsMapping(db)

\* C24: expansion is order-independent: two combinations whose terms are the
\* same multiset of (term, weight) pairs in different orders (the combinations
\* of x + y and y + x) expand to the same canonical form and compare equal as
\* expansions.
C24_OrderIndependent ==
    \A i, j \in 1..Len(ufloats) :
        Reordered(ufloats[i].uncertainty.combo, ufloats[j].uncertainty.combo)
          => ExpansionsEqual(impl, Expand(ufloats[i].uncertainty),
                             Expand(ufloats[j].uncertainty))

\* C25: expansion is idempotent: for every combination c, expanding the
\* expanded form of c gives the expanded form of c again (same atoms, same
\* weights).
C25_Idempotent ==
    ret.op = "get_expanded_combo"
      => ret.out = Returns("expansion", ret.args[1])

RECURSIVE SubCombos(_)
SubCombos(combo) ==
    {combo} \cup UNION {SubCombos(combo.combo[k][1]) :
                          k \in {j \in 1..Len(combo.combo) :
                                   ~IsAtom(combo.combo[j][1])}}

\* The combinations some live Value refers to, directly or nested.
Reachable(ufs) == UNION {SubCombos(ufs[k].uncertainty) : k \in 1..Len(ufs)}

\* C27: the expansion and std-dev caches never hold an entry for a
\* combination that no live Value or combination refers to.
C27_CachesHoldOnlyReachable ==
    \A combo \in DOMAIN expand_cache \cup DOMAIN std_dev_cache :
        combo \in Reachable(ufloats)

\* C28: the expansion/std-dev cache is the only mutable state shared between
\* calls: no lifted function, derivative function or registry entry keeps
\* other state that one call writes and a later or interleaved call reads, so
\* the value a derivative function returns is that of its string at the
\* arguments of its own call.
C28_NoOtherSharedState ==
    ret.op = "pos_func"
      => ret.out = Returns("float",
                           DerivFunc(ret.args[1].func_name, ret.args[1].param,
                                     <<ret.args[2], ret.args[3]>>))

\* C29: expanding a combination terminates with a result for every
\* combination reachable by any chain of operations, however deeply nested.
C29_ExpansionTerminates ==
    ret.op = "expanded" => ret.out.kind # "raise"

\* C30: the memoized expansion and standard deviation returned for a
\* combination equal what an uncached recomputation from the combination's
\* terms returns, also for structurally equal combinations sharing a cache
\* entry and after a returned expansion has been handed to a caller.
C30_MemoizedEqualsRecomputed ==
    /\ (ret.op = "expanded" /\ ret.out.kind # "raise")
         => ret.out.value = Expand(ret.args[1].uncertainty)
    /\ (ret.op = "std_dev" /\ ret.out.kind # "raise")
         => ret.out.value
              = get_std_dev(impl, Expand(ret.args[1].uncertainty)).value

=============================================================================
